---- MODULE Spec2Model ----
(***************************************************************************)
(* A model of snapshotter.py: incremental snapshot backups made by running *)
(* rsync and then promoting incomplete.snapshot with mv, rm and ln.        *)
(*                                                                         *)
(* Strings the program inspects character by character (the rsync SRC and  *)
(* DEST arguments) are sequences of one-character strings.  A command is   *)
(* the sequence of tokens that command.split() hands to the subprocess;    *)
(* each token is a TLA+ string.  Python 2 semantics are modelled (the      *)
(* program reads err.message).                                             *)
(***************************************************************************)
EXTENDS Integers, Sequences, FiniteSets, TLC

VARIABLES
    pc,            \* position of the current invocation
    via,           \* "main" (command line) or "api" (snapshot() called directly)
    cli,           \* the arguments the caller supplied
    debug,         \* snapshot()'s debug parameter
    exclude,       \* snapshot()'s exclude parameter
    source,        \* snapshot()'s source, after line 119
    date,          \* snapshot()'s date
    dest_spec,     \* (user, host, snapshots_root) of line 123
    rsync_cmd, mv_cmd, rm_cmd, ln_cmd,
    log,           \* what the invocation echoed and ran, in order
    raised,        \* the exception the invocation raised, or NoError
    exit_status,   \* the process's exit status when run through main()
    fs,            \* the snapshot trees: machine -> directories and symlinks
    links0,        \* the symlinks of each machine when the invocation began
    clock,         \* the wall clock, in seconds
    excludes_file, \* whether ~/.snapshotter/excludes is a file
    arg,           \* ParseSpec: the argument given to _parse_rsync_arg
    parsed         \* ParseSpec: what _parse_rsync_arg returned

vars == <<pc, via, cli, debug, exclude, source, date, dest_spec, rsync_cmd,
          mv_cmd, rm_cmd, ln_cmd, log, raised, exit_status, fs, links0, clock,
          excludes_file, arg, parsed>>

snapshot_vars == <<pc, via, cli, debug, exclude, source, date, dest_spec,
                   rsync_cmd, mv_cmd, rm_cmd, ln_cmd, log, raised,
                   exit_status, fs, links0, clock, excludes_file>>

(***************************************************************************)
(* Bounds.                                                                 *)
(***************************************************************************)
MaxArgLen == 5      \* longest argument ParseSpec gives to _parse_rsync_arg
MaxClock == 2       \* the clock runs from 1 to MaxClock
MaxExclude == 2     \* most exclude patterns supplied
MaxExit == 2        \* failing commands exit with 1..MaxExit

(***************************************************************************)
(* Python values.                                                          *)
(***************************************************************************)
None == <<"None">>
sep == "/"
Chars == {"/", ":", "@", "~", "a"}
HomeDir == <<"/", "h">>      \* the invoking user's home directory
Cwd == <<"/", "w">>          \* the current working directory
ENOENT == 2

RECURSIVE Str(_)
Str(s) == IF s = <<>> THEN "" ELSE Head(s) \o Str(Tail(s))

Contains(s, c) == \E i \in 1..Len(s) : s[i] = c

\* s.find(c), 1-based; 0 when c is not in s
Find(s, c) ==
    IF Contains(s, c)
    THEN CHOOSE i \in 1..Len(s) : s[i] = c /\ \A j \in 1..(i - 1) : s[j] # c
    ELSE 0

\* s.rfind(c), 1-based; 0 when c is not in s
RFind(s, c) ==
    IF Contains(s, c)
    THEN CHOOSE i \in 1..Len(s) : s[i] = c /\ \A j \in (i + 1)..Len(s) : s[j] # c
    ELSE 0

\* s.split(c)[0]
SplitFirst(s, c) == IF Contains(s, c) THEN SubSeq(s, 1, Find(s, c) - 1) ELSE s

\* s.split(c)[-1]
SplitLast(s, c) == SubSeq(s, RFind(s, c) + 1, Len(s))

\* s.split(c, 1), for an s that contains c
SplitOnce(s, c) ==
    <<SubSeq(s, 1, Find(s, c) - 1), SubSeq(s, Find(s, c) + 1, Len(s))>>

endswith(s, c) == Len(s) > 0 /\ s[Len(s)] = c

\* os.path.expanduser: a leading ~ alone or before / is the home directory;
\* ~name for a user that does not exist is left as it is
expanduser(p) ==
    IF Len(p) > 0 /\ p[1] = "~" /\ (Len(p) = 1 \/ p[2] = sep)
    THEN HomeDir \o Tail(p)
    ELSE p

\* the non-empty components of p.split('/')
RECURSIVE Comps(_)
Comps(p) ==
    IF p = <<>> THEN <<>>
    ELSE IF Head(p) = sep THEN Comps(Tail(p))
    ELSE LET c == SplitFirst(p, sep)
         IN <<c>> \o Comps(SubSeq(p, Len(c) + 1, Len(p)))

RECURSIVE JoinSep(_)
JoinSep(cs) ==
    IF cs = <<>> THEN <<>>
    ELSE IF Len(cs) = 1 THEN cs[1]
    ELSE cs[1] \o <<sep>> \o JoinSep(Tail(cs))

\* posixpath.normpath on paths without . and .. components
normpath(p) ==
    LET slashes ==
            IF Len(p) > 0 /\ p[1] = sep
            THEN IF Len(p) > 1 /\ p[2] = sep /\ ~(Len(p) > 2 /\ p[3] = sep)
                 THEN <<sep, sep>> ELSE <<sep>>
            ELSE <<>>
        body == JoinSep(Comps(p))
    IN IF slashes \o body = <<>> THEN <<".">> ELSE slashes \o body

\* posixpath.abspath
abspath(p) ==
    IF Len(p) > 0 /\ p[1] = sep THEN normpath(p)
    ELSE normpath(Cwd \o <<sep>> \o p)

(***************************************************************************)
(* _is_remote and _parse_rsync_arg.                                        *)
(***************************************************************************)
\* a colon anywhere makes the argument remote
IsRemoteAnyColon(src_or_dest) == Contains(src_or_dest, ":")

_is_remote(src_or_dest) == Contains(SplitFirst(src_or_dest, sep), ":")

ParseUserFirstAt(before_first_colon) ==
    IF Contains(before_first_colon, "@")
    THEN SplitFirst(before_first_colon, "@")
    ELSE None

ParseHost(before_first_colon) == SplitLast(before_first_colon, "@")

_parse_rsync_arg(a) ==
    IF _is_remote(a)
    THEN LET before_first_colon == SplitOnce(a, ":")[1]
             after_first_colon == SplitOnce(a, ":")[2]
         IN <<ParseUserFirstAt(before_first_colon),
              ParseHost(before_first_colon),
              after_first_colon>>
    ELSE <<None, None, abspath(expanduser(a))>>

(***************************************************************************)
(* ParseSpec: _parse_rsync_arg applied to every argument of up to          *)
(* MaxArgLen characters.                                                   *)
(***************************************************************************)
Args == UNION {[1..n -> Chars] : n \in 0..MaxArgLen}

NotParsed == <<>>

ParseInit ==
    /\ arg \in Args
    /\ parsed = NotParsed
    /\ pc = "idle" /\ via = "api" /\ cli = <<>> /\ debug = FALSE
    /\ exclude = None /\ source = <<>> /\ date = "" /\ dest_spec = <<>>
    /\ rsync_cmd = <<>> /\ mv_cmd = <<>> /\ rm_cmd = <<>> /\ ln_cmd = <<>>
    /\ log = <<>> /\ raised = <<>> /\ exit_status = -1
    /\ fs = <<>> /\ links0 = <<>> /\ clock = 1 /\ excludes_file = FALSE

Parse ==
    /\ parsed = NotParsed
    /\ parsed' = _parse_rsync_arg(arg)
    /\ UNCHANGED <<arg, snapshot_vars>>

ParseNext == Parse

ParseSpec == ParseInit /\ [][ParseNext]_vars

(***************************************************************************)
(* The inputs of the snapshot model.                                       *)
(***************************************************************************)
Sources == {<<"/", "s">>, <<"/", "s", "/">>}
Dests == {<<"/", "b">>,
          <<"h", ":", "/", "b">>,
          <<"u", "@", "h", ":", "/", "b">>}
AllPatterns == <<"*.o", "*.tmp", ".git/*", "*~">>
\* the values of optparse's options.exclude: None, or the patterns in order
ExcludeValues == {None} \cup {SubSeq(AllPatterns, 1, n) : n \in 1..MaxExclude}
\* positional argument lists that are not SRC DEST
BadPositionals == {<<>>, <<<<"/", "s">>>>,
                   <<<<"/", "s">>, <<"/", "b">>, <<"/", "b">>>>}

Digits == <<"0", "1", "2", "3", "4", "5", "6", "7", "8", "9">>
ToStr(n) == Digits[n + 1]

\* _datetime() at second `now`: strftime("%Y-%m-%dT%H_%M_%S")
_datetime(now) == "2014-01-01T00_00_0" \o ToStr(now)

(***************************************************************************)
(* The commands snapshot() builds.                                         *)
(***************************************************************************)
BaseOptions ==
    <<"--archive", "--partial", "--partial-dir=partially_transferred_files",
      "--one-file-system", "--delete", "--delete-excluded",
      "--itemize-changes", "--link-dest=../latest.snapshot",
      "--human-readable", "--quiet", "--compress", "--fuzzy">>

RECURSIVE ExcludeOptions(_)
ExcludeOptions(patterns) ==
    IF patterns = <<>> THEN <<>>
    ELSE <<"--exclude", "'" \o Head(patterns) \o "'">>
         \o ExcludeOptions(Tail(patterns))

\* the trial flag never handed to rsync
DryRunOptionNever(dbg) == <<>>

DryRunOption(dbg) == IF dbg THEN <<"--dry-run">> ELSE <<>>

rsync_options(has_excludes_file, dbg, excl) ==
    BaseOptions
    \o (IF has_excludes_file
        THEN <<"--exclude-from=$HOME/.snapshotter/excludes">> ELSE <<>>)
    \o DryRunOption(dbg)
    \o (IF excl # None THEN ExcludeOptions(excl) ELSE <<>>)

\* the "[user@]host" of a remote destination
UserHost(user, host) ==
    (IF user # None THEN Str(user) \o "@" ELSE "") \o Str(host)

\* the sync going straight into latest.snapshot
RsyncCmdIntoLatest(has_excludes_file, src, spec, dbg, excl) ==
    <<"rsync">> \o rsync_options(has_excludes_file, dbg, excl)
    \o <<Str(src)>>
    \o <<(IF spec[2] # None THEN UserHost(spec[1], spec[2]) \o ":" ELSE "")
         \o Str(spec[3]) \o "/latest.snapshot">>

RsyncCmd(has_excludes_file, src, spec, dbg, excl) ==
    LET user == spec[1]
        host == spec[2]
        snapshots_root == spec[3]
    IN <<"rsync">> \o rsync_options(has_excludes_file, dbg, excl)
       \o <<Str(src)>>
       \o <<(IF host # None THEN UserHost(user, host) \o ":" ELSE "")
            \o Str(snapshots_root) \o "/incomplete.snapshot">>

MvCmd(spec, d) ==
    LET user == spec[1]
        host == spec[2]
        snapshots_root == spec[3]
    IN IF host # None
       THEN <<"ssh", UserHost(user, host),
              "\"mv", Str(snapshots_root) \o "/incomplete.snapshot",
              Str(snapshots_root) \o "/" \o d \o ".snapshot" \o "\"">>
       ELSE <<"mv", Str(snapshots_root) \o "/incomplete.snapshot",
              Str(snapshots_root) \o "/" \o d \o ".snapshot">>

\* rm without -f
RmCmdNoForce(spec) == <<"rm", Str(spec[3]) \o "/latest.snapshot">>

RmCmd(spec) == <<"rm", "-f", Str(spec[3]) \o "/latest.snapshot">>

\* ln towards the bare label
LnCmdNoSuffix(spec, d) ==
    <<"ln", "-s", d, Str(spec[3]) \o "/latest.snapshot">>

\* ln with its two operands the wrong way round
LnCmdSwapped(spec, d) ==
    <<"ln", "-s", Str(spec[3]) \o "/latest.snapshot", d \o ".snapshot">>

LnCmd(spec, d) ==
    <<"ln", "-s", d \o ".snapshot", Str(spec[3]) \o "/latest.snapshot">>

(***************************************************************************)
(* The machines and their snapshot trees.  A tree is the set of            *)
(* directories and the set of symlinks <<path, target>> of a machine.      *)
(* What rsync, ssh, mv, rm and ln do to them is the environment's part:    *)
(* any command may also fail.                                              *)
(***************************************************************************)
Machines == {"local", "remote"}
Roots == {"/b"}
RemotePrefixes == {"h:", "u@h:"}
SnapshotPaths ==
    {r \o "/" \o _datetime(n) \o ".snapshot" : r \in Roots, n \in 1..MaxClock}
EmptyTree == [dirs |-> {}, links |-> {}]

\* where the last token of an rsync command points
RsyncTarget(tok) ==
    IF \E pre \in RemotePrefixes, r \in Roots :
           tok = pre \o r \o "/incomplete.snapshot"
    THEN [machine |-> "remote",
          path |-> CHOOSE q \in {r \o "/incomplete.snapshot" : r \in Roots} :
                       \E pre \in RemotePrefixes : tok = pre \o q]
    ELSE [machine |-> "local", path |-> tok]

\* the machine a command acts on, and the command as that machine runs it:
\* ssh hands the words after the host to the remote shell, which is taken
\* here to drop the quotes around them
Machine(cmd) == IF cmd[1] = "ssh" THEN "remote" ELSE "local"
Unwrapped(cmd) ==
    IF cmd[1] = "ssh"
    THEN <<"mv", cmd[4],
           IF \E q \in SnapshotPaths : q \o "\"" = cmd[5]
           THEN CHOOSE q \in SnapshotPaths : q \o "\"" = cmd[5]
           ELSE cmd[5]>>
    ELSE cmd

IsDryRun(cmd) == \E i \in 1..Len(cmd) : cmd[i] = "--dry-run"

\* rm -f: a missing operand is not an error
Forced(cmd) == \E i \in 1..Len(cmd) : cmd[i] = "-f"

\* whether the command can exit 0 on tree t
CanSucceed(cmd, f) ==
    LET c == Unwrapped(cmd)
        t == f[Machine(cmd)]
    IN CASE c[1] = "mv" -> c[2] \in t.dirs
         [] c[1] = "rm" ->
              /\ c[Len(c)] \notin t.dirs
              /\ Forced(c) \/ \E l \in t.links : l[1] = c[Len(c)]
         [] c[1] = "ln" -> ~\E l \in t.links : l[1] = c[4]
         [] OTHER -> TRUE

\* the trees after the command exited 0
Effect(cmd, f) ==
    LET c == Unwrapped(cmd)
        m == Machine(cmd)
        t == f[m]
    IN CASE c[1] = "rsync" ->
              IF IsDryRun(c) THEN f
              ELSE LET to == RsyncTarget(c[Len(c)])
                   IN [f EXCEPT ![to.machine].dirs = @ \cup {to.path}]
         [] c[1] = "mv" ->
              [f EXCEPT ![m].dirs = (@ \ {c[2]}) \cup {c[3]}]
         [] c[1] = "rm" ->
              [f EXCEPT ![m].links = {l \in @ : l[1] # c[Len(c)]}]
         [] c[1] = "ln" ->
              [f EXCEPT ![m].links = @ \cup {<<c[4], c[3]>>}]
         [] OTHER -> f

\* the trees after the command exited non-zero: nothing changed, or an
\* rsync that was not a dry run left a partial incomplete.snapshot
FailureEffects(cmd, f) ==
    IF cmd[1] = "rsync" THEN {f, Effect(cmd, f)} ELSE {f}

(***************************************************************************)
(* _run: what the subprocess did (proc) becomes a return or an exception.  *)
(***************************************************************************)
\* what a subprocess can do: exit 0 (the commands print nothing then: rsync
\* runs with --quiet), exit non-zero with some output, or not start at all
Outputs == {"", "rsync: failed"}
Errnos == {ENOENT, 13}
Procs ==
    [kind : {"exit"}, code : {0}, output : {""}]
    \cup [kind : {"exit"}, code : 1..MaxExit, output : Outputs]
    \cup [kind : {"oserror"}, errno : Errnos]

NoError == [type |-> "none"]

CalledProcessError(command, output, exit_value) ==
    [type |-> "CalledProcessError", command |-> command, output |-> output,
     exit_value |-> exit_value, message |-> output \o " " \o ToStr(exit_value)]

NoSuchCommandError(command, message) ==
    [type |-> "NoSuchCommandError", command |-> command, message |-> message]

\* _run as subprocess.call would make it: the exit status is not checked
RunUnchecked(command, proc) ==
    IF proc.kind = "exit" THEN NoError
    ELSE IF proc.errno = ENOENT
         THEN NoSuchCommandError(command, "No such file or directory")
         ELSE [type |-> "OSError", errno |-> proc.errno]

\* _run turning every OSError into a CalledProcessError
RunNotFoundAsFailed(command, proc) ==
    IF proc.kind = "exit"
    THEN IF proc.code = 0 THEN NoError
         ELSE CalledProcessError(command, proc.output, proc.code)
    ELSE CalledProcessError(command, "No such file or directory", proc.errno)

_run(command, proc) ==
    IF proc.kind = "exit"
    THEN IF proc.code = 0 THEN NoError
         ELSE CalledProcessError(command, proc.output, proc.code)
    ELSE IF proc.errno = ENOENT
         THEN NoSuchCommandError(command, "No such file or directory")
         ELSE [type |-> "OSError", errno |-> proc.errno]

(***************************************************************************)
(* snapshot(), up to the first command: lines 116-174.                     *)
(***************************************************************************)
\* the separator appended whether or not the source ends with one
NormalisedSourceAlways(s) == s \o <<sep>>

NormalisedSource(s) == IF ~endswith(s, sep) THEN s \o <<sep>> ELSE s

\* the parameters of snapshot(source, dest, debug, compress, exclude)
SnapshotParams(s, d, dbg, compress, excl) ==
    [source |-> s, dest |-> d, debug |-> dbg, compress |-> compress,
     exclude |-> excl]

\* main() line 233: snapshot(src, dest, debug, exclude), by position
MainCall(src, dst, dbg, excl) == SnapshotParams(src, dst, dbg, excl, None)

Idle == pc \in {"idle", "done", "failed", "usage"}

Begin(p, now) ==
    LET spec == _parse_rsync_arg(p.dest)
        src == NormalisedSource(p.source)
        d == _datetime(now)
    IN /\ clock' = now
       /\ source' = src
       /\ date' = d
       /\ debug' = p.debug
       /\ exclude' = p.exclude
       /\ dest_spec' = spec
       /\ rsync_cmd' = RsyncCmd(excludes_file, src, spec, p.debug, p.exclude)
       /\ mv_cmd' = MvCmd(spec, d)
       /\ rm_cmd' = RmCmd(spec)
       /\ ln_cmd' = LnCmd(spec, d)
       /\ log' = <<>>
       /\ raised' = NoError
       /\ exit_status' = -1
       /\ links0' = [m \in Machines |-> fs[m].links]
       /\ pc' = "rsync"
       /\ UNCHANGED <<fs, excludes_file, arg, parsed>>

\* snapshot() called directly, with inputs from the given sets
CallSnapshotFrom(Srcs, Excls) ==
    /\ Idle
    /\ \E s \in Srcs, d \in Dests, dbg \in BOOLEAN, excl \in Excls,
          now \in clock..MaxClock :
         /\ via' = "api"
         /\ cli' = [positional |-> <<s, d>>, debug |-> dbg, exclude |-> excl]
         /\ Begin(SnapshotParams(s, d, dbg, TRUE, excl), now)

(***************************************************************************)
(* _parse_cli and main().                                                  *)
(***************************************************************************)
CliOk(args) == Len(args.positional) = 2

_parse_cli(args) ==
    <<args.positional[1], args.positional[2], args.debug, args.exclude>>

\* sys.exit(message) with a string: the message goes to stderr and the
\* status is 0
SysExitSuccess(message) == 0

\* sys.exit(message) with a string: the message goes to stderr and the
\* status is 1
SysExit(message) == 1

\* main() with SRC DEST: parses and enters snapshot()
MainFrom(Srcs, Excls) ==
    /\ Idle
    /\ \E s \in Srcs, d \in Dests, dbg \in BOOLEAN, excl \in Excls,
          now \in clock..MaxClock :
         LET args == [positional |-> <<s, d>>, debug |-> dbg, exclude |-> excl]
             got == _parse_cli(args)
         IN /\ CliOk(args)
            /\ via' = "main"
            /\ cli' = args
            /\ Begin(MainCall(got[1], got[2], got[3], got[4]), now)

\* main() with any other number of positional arguments: sys.exit(usage)
MainUsage ==
    /\ Idle
    /\ \E pos \in BadPositionals, dbg \in BOOLEAN, excl \in ExcludeValues :
         LET args == [positional |-> pos, debug |-> dbg, exclude |-> excl]
         IN /\ ~CliOk(args)
            /\ via' = "main"
            /\ cli' = args
            /\ raised' = [type |-> "CommandLineArgumentsError",
                          message |-> "usage: %prog [options] SRC DEST"]
            /\ exit_status' = SysExit("usage: %prog [options] SRC DEST")
            /\ log' = <<>>
            /\ links0' = [m \in Machines |-> fs[m].links]
            /\ pc' = "usage"
            /\ UNCHANGED <<debug, exclude, source, date, dest_spec, rsync_cmd,
                           mv_cmd, rm_cmd, ln_cmd, fs, clock, excludes_file,
                           arg, parsed>>

(***************************************************************************)
(* The commands: print(cmd) then _run(cmd), lines 176-185.                 *)
(***************************************************************************)
\* the events of log: the echo of a command, its launch, and what the
\* subprocess did
Echoed(cmd) == <<"echo", cmd>>
Ran(cmd) == <<"run", cmd>>
Ended(cmd, proc) == <<"end", cmd, proc>>

\* the command launched before it is echoed
StepEventsRunFirst(cmd, proc) == <<Ran(cmd), Ended(cmd, proc), Echoed(cmd)>>

\* print(cmd) then _run(cmd): what one step adds to log
StepEvents(cmd, proc) == <<Echoed(cmd), Ran(cmd), Ended(cmd, proc)>>

\* snapshot() swallowing the exception and going on
NextPcContinue(ok, next) == next

\* where snapshot() is after _run returned (ok) or raised
NextPc(ok, next) == IF ok THEN next ELSE "failed"

\* status of the process once main() is left with this outcome
ExitStatus(err, finished) ==
    IF via # "main" THEN exit_status
    ELSE IF err.type # "none" THEN 1
    ELSE IF finished THEN 0 ELSE exit_status

\* promotion not guarded by `if not debug`
AfterRsyncAlways == "mv"

AfterRsync == IF debug THEN "done" ELSE "mv"

Step(cmd, next) ==
    \E proc \in Procs :
      LET err == _run(cmd, proc)
          ok == err.type = "none"
      IN /\ ok => CanSucceed(cmd, fs)
         /\ log' = log \o StepEvents(cmd, proc)
         /\ raised' = err
         /\ pc' = NextPc(ok, next)
         /\ exit_status' = ExitStatus(err, next = "done")
         /\ \/ ok /\ fs' = Effect(cmd, fs)
            \/ /\ ~ok /\ proc.kind = "exit"
               /\ fs' \in FailureEffects(cmd, fs)
            \/ ~ok /\ proc.kind = "oserror" /\ fs' = fs
         /\ UNCHANGED <<via, cli, debug, exclude, source, date, dest_spec,
                        rsync_cmd, mv_cmd, rm_cmd, ln_cmd, links0, clock,
                        excludes_file, arg, parsed>>

RunRsync == pc = "rsync" /\ Step(rsync_cmd, AfterRsync)
\* the rename step running the remove command
RunMvAsRm == pc = "mv" /\ Step(rm_cmd, "rm")

RunMv == pc = "mv" /\ Step(mv_cmd, "rm")
\* the remove step running the link command
RunRmAsLn == pc = "rm" /\ Step(ln_cmd, "ln")

RunRm == pc = "rm" /\ Step(rm_cmd, "ln")
\* the link step running the remove command again
RunLnAsRm == pc = "ln" /\ Step(rm_cmd, "done")

RunLn == pc = "ln" /\ Step(ln_cmd, "done")

(***************************************************************************)
(* Spec: any number of calls of snapshot(), one after the other, against   *)
(* the same trees.  The source and the exclude patterns do not bear on     *)
(* what the commands do to the trees, so they are held to one value each   *)
(* here; BuildSpec below varies them and enters through main() as well.    *)
(***************************************************************************)
InitWith(has_excludes_file) ==
    /\ pc = "idle" /\ via = "api"
    /\ cli = [positional |-> <<>>, debug |-> FALSE, exclude |-> None]
    /\ debug = FALSE /\ exclude = None /\ source = <<>> /\ date = ""
    /\ dest_spec = <<None, None, <<>>>>
    /\ rsync_cmd = <<>> /\ mv_cmd = <<>> /\ rm_cmd = <<>> /\ ln_cmd = <<>>
    /\ log = <<>> /\ raised = NoError /\ exit_status = -1
    /\ fs = [m \in Machines |-> EmptyTree]
    /\ links0 = [m \in Machines |-> {}]
    /\ clock = 1
    /\ excludes_file \in has_excludes_file
    /\ arg = <<>> /\ parsed = NotParsed

Init == InitWith({FALSE})

CallSnapshot == CallSnapshotFrom({<<"/", "s">>}, {None})

Next ==
    \/ CallSnapshot
    \/ RunRsync
    \/ RunMv
    \/ RunRm
    \/ RunLn

Spec == Init /\ [][Next]_vars

(***************************************************************************)
(* BuildSpec: one invocation from empty trees, through main() or by        *)
(* calling snapshot(), over every source, exclude list and state of the    *)
(* excludes file.                                                          *)
(***************************************************************************)
BuildInit == InitWith(BOOLEAN)

BuildCall == pc = "idle" /\ CallSnapshotFrom(Sources, ExcludeValues)
BuildMain == pc = "idle" /\ MainFrom(Sources, ExcludeValues)
BuildUsage == pc = "idle" /\ MainUsage

BuildNext ==
    \/ BuildCall
    \/ BuildMain
    \/ BuildUsage
    \/ RunRsync
    \/ RunMv
    \/ RunRm
    \/ RunLn

BuildSpec == BuildInit /\ [][BuildNext]_vars

(***************************************************************************)
(* What an invocation did, read from its log.                              *)
(***************************************************************************)
IsRun(e) == e[1] = "run"
IsEnd(e) == e[1] = "end"
\* the commands run, in order, and what each subprocess did
Issued == [i \in 1..Len(SelectSeq(log, IsRun)) |-> SelectSeq(log, IsRun)[i][2]]
Outcomes == [i \in 1..Len(SelectSeq(log, IsEnd)) |-> SelectSeq(log, IsEnd)[i][3]]
Succeeded(proc) == proc.kind = "exit" /\ proc.code = 0
ExitedNonZero(proc) == proc.kind = "exit" /\ proc.code # 0
Program(cmd) == Unwrapped(cmd)[1]
Programs(cmds) == [i \in 1..Len(cmds) |-> Program(cmds[i])]
Plan == <<rsync_cmd, mv_cmd, rm_cmd, ln_cmd>>
PlanPrograms == <<"rsync", "mv", "rm", "ln">>
SyncSucceeded == Len(Outcomes) >= 1 /\ Succeeded(Outcomes[1])
Finished == pc \in {"done", "failed"}
LastOutcome == Outcomes[Len(Outcomes)]

(***************************************************************************)
(* C1.  As claimed: once the sync has succeeded in a run that is not a     *)
(* trial run, the invocation issues exactly the three promotion commands   *)
(* mv, rm, ln after it, in that order.                                     *)
(***************************************************************************)
C1_ExactlyThreePromotions ==
    (Finished /\ SyncSucceeded /\ ~debug) =>
        /\ Issued = Plan
        /\ Programs(Issued) = PlanPrograms

\* C1, amended: the commands issued are always the first commands of
\* rsync, mv, rm, ln in that order (no other command, none twice); an
\* invocation that is not a trial run and in which no command failed has
\* issued all four, and one whose promotion failed stops at the failed one.
C1_PromotionOrder ==
    /\ Issued = SubSeq(Plan, 1, Len(Issued))
    /\ Programs(Issued) = SubSeq(PlanPrograms, 1, Len(Issued))
    /\ (pc = "done" /\ ~debug) => Len(Issued) = 4
    /\ (pc = "failed" /\ SyncSucceeded) =>
           /\ Len(Issued) \in 2..4
           /\ ~Succeeded(LastOutcome)

C1_Witness == pc = "done" /\ ~debug /\ Len(Issued) = 4

(***************************************************************************)
(* C2.  As claimed: in trial mode no rename, remove-link or create-link    *)
(* command is built or executed, whether the sync succeeds or fails.       *)
(***************************************************************************)
C2_TrialBuildsNothing ==
    (debug /\ pc \in {"rsync", "done", "failed"}) =>
        /\ mv_cmd = <<>> /\ rm_cmd = <<>> /\ ln_cmd = <<>>
        /\ \A i \in 1..Len(Issued) : Issued[i] = rsync_cmd

\* C2, amended: in trial mode no promotion command is echoed or executed,
\* whether the sync succeeds or fails: the sync command is the only one.
\* The three promotion commands are built all the same, before the sync.
C2_TrialRunsNoPromotion ==
    debug =>
        /\ pc \notin {"mv", "rm", "ln"}
        /\ \A i \in 1..Len(log) : log[i][2] = rsync_cmd
        /\ Program(rsync_cmd) = "rsync"
        /\ Len(Issued) <= 1
        /\ Finished => Len(Issued) = 1
        /\ Program(mv_cmd) = "mv" /\ Program(rm_cmd) = "rm"
        /\ Program(ln_cmd) = "ln"

C2_Witness == debug /\ pc = "done" /\ SyncSucceeded /\ Issued = <<rsync_cmd>>

(***************************************************************************)
(* C3.  When the sync command exits non-zero, the invocation has failed    *)
(* having issued the sync command alone, and the exception raised is a     *)
(* CalledProcessError with the output and the exit code of the sync.       *)
(***************************************************************************)
C3_SyncFailure ==
    (Len(Outcomes) >= 1 /\ ExitedNonZero(Outcomes[1])) =>
        /\ pc = "failed"
        /\ Issued = <<rsync_cmd>>
        /\ raised.type = "CalledProcessError"
        /\ raised.output = Outcomes[1].output
        /\ raised.exit_value = Outcomes[1].code
        /\ raised.command = rsync_cmd

C3_Witness ==
    /\ pc = "failed" /\ ~debug /\ Len(Outcomes) = 1
    /\ ExitedNonZero(Outcomes[1])
    /\ Outcomes[1].code = MaxExit /\ Outcomes[1].output = "rsync: failed"

(***************************************************************************)
(* C4.  A promotion step runs only if every command before it succeeded;   *)
(* the failure of the failed step is raised, and nothing is run after it   *)
(* (no rollback): the commands issued are first commands of the plan.      *)
(***************************************************************************)
C4_StopAtFailedStep ==
    /\ \A i \in 1..Len(Issued) : \A j \in 1..(i - 1) : Succeeded(Outcomes[j])
    /\ Issued = SubSeq(Plan, 1, Len(Issued))
    /\ pc = "failed" =>
           /\ ~Succeeded(LastOutcome)
           /\ raised.type # "none"
           /\ raised.type \in {"CalledProcessError", "NoSuchCommandError"}
                  => raised.command = Issued[Len(Issued)]
           /\ ExitedNonZero(LastOutcome) =>
                  /\ raised.type = "CalledProcessError"
                  /\ raised.exit_value = LastOutcome.code

C4_Witness ==
    /\ pc = "failed" /\ ~debug /\ Len(Issued) = 3
    /\ Program(Issued[3]) = "rm" /\ ExitedNonZero(LastOutcome)

(***************************************************************************)
(* The snapshot tree of the current invocation's destination.              *)
(***************************************************************************)
DestMachine == IF dest_spec[2] = None THEN "local" ELSE "remote"
Root == Str(dest_spec[3])
LatestPath == Root \o "/latest.snapshot"
SnapshotName(n) == _datetime(n) \o ".snapshot"
\* the targets of <root>/latest.snapshot on machine m: none or one
LatestTargets(m) == {l[2] : l \in {k \in fs[m].links : k[1] = LatestPath}}
\* the seconds whose <label>.snapshot is a directory of the root on m
Completed(m) ==
    {n \in 1..MaxClock : Root \o "/" \o SnapshotName(n) \in fs[m].dirs}
MostRecent(m) ==
    SnapshotName(CHOOSE n \in Completed(m) : \A k \in Completed(m) : k <= n)

(***************************************************************************)
(* C5.  As claimed: between invocations, whatever they were and however    *)
(* they ended, latest.snapshot of a tree that holds completed snapshots    *)
(* points at the most recent of them.                                      *)
(***************************************************************************)
C5_LatestIsMostRecent ==
    (Finished /\ Completed(DestMachine) # {}) =>
        LatestTargets(DestMachine) = {MostRecent(DestMachine)}

\* C5, amended: after an invocation that was not a trial run and in which
\* the sync and the three promotion commands all succeeded,
\* <root>/latest.snapshot on the machine that ran the link commands points
\* at that invocation's <label>.snapshot; for a local destination that is a
\* directory of the root and the most recent completed snapshot.
C5_LatestAfterFullRun ==
    (pc = "done" /\ ~debug) =>
        /\ LatestTargets("local") = {date \o ".snapshot"}
        /\ DestMachine = "local" =>
               /\ Root \o "/" \o date \o ".snapshot" \in fs["local"].dirs
               /\ MostRecent("local") = date \o ".snapshot"

C5_Witness ==
    /\ pc = "done" /\ ~debug /\ DestMachine = "local"
    /\ Cardinality(Completed("local")) >= 2
    /\ links0["local"] # fs["local"].links

(***************************************************************************)
(* C6.  As claimed: when an invocation has failed, at whichever step, the  *)
(* destination's latest.snapshot is as it was before the invocation.       *)
(***************************************************************************)
C6_FailedLeavesLatest ==
    pc = "failed" => fs[DestMachine].links = links0[DestMachine]

\* C6, amended: when the invocation failed in the sync, the rename or the
\* remove-old-link step, the destination's latest.snapshot is as it was
\* before the invocation; when it failed in the create-new-link step the
\* old link has been removed already, and for a local destination
\* latest.snapshot is absent.
C6_FailedLatest ==
    pc = "failed" =>
        /\ Len(Issued) <= 3 => fs[DestMachine].links = links0[DestMachine]
        /\ (Len(Issued) = 4 /\ DestMachine = "local") =>
               LatestTargets("local") = {}

C6_Witness ==
    /\ pc = "failed" /\ Len(Issued) = 4 /\ DestMachine = "local"
    /\ links0["local"] # {}
    /\ LatestTargets("local") = {}

(***************************************************************************)
(* C7.  As claimed: for a remote destination every promotion command acts  *)
(* on the remote host; after a run with no failure that is not a trial     *)
(* run the remote root holds <label>.snapshot with latest.snapshot         *)
(* pointing at it, and promotion changed nothing on the local machine.     *)
(***************************************************************************)
C7_PromotionOnRemote ==
    DestMachine = "remote" =>
        /\ \A i \in 2..Len(Issued) : Machine(Issued[i]) = "remote"
        /\ (pc = "done" /\ ~debug) =>
               /\ Root \o "/" \o date \o ".snapshot" \in fs["remote"].dirs
               /\ LatestTargets("remote") = {date \o ".snapshot"}
               /\ fs["local"].links = links0["local"]

(***************************************************************************)
(* C8.  _parse_rsync_arg gives a host exactly when a colon comes before    *)
(* the first / of the argument; otherwise user and host are both None.     *)
(***************************************************************************)
ColonBeforeFirstSlash(a) ==
    \E i \in 1..Len(a) : a[i] = ":" /\ \A j \in 1..(i - 1) : a[j] # "/"

C8_RemoteIffColonBeforeSlash ==
    parsed # NotParsed =>
        /\ (parsed[2] # None) <=> ColonBeforeFirstSlash(arg)
        /\ ~ColonBeforeFirstSlash(arg) => parsed[1] = None /\ parsed[2] = None

C8_Witness ==
    /\ parsed # NotParsed
    /\ arg = <<"/", "a", ":", "a">>
    /\ parsed[1] = None /\ parsed[2] = None

(***************************************************************************)
(* C9.  As claimed: a remote argument is split at its first colon into     *)
(* head and path; a head with an @ is split at its last @ into user and    *)
(* host, and a head without one is the host, with user None.               *)
(***************************************************************************)
C9_SplitOnLastAt ==
    (parsed # NotParsed /\ ColonBeforeFirstSlash(arg)) =>
        LET colon == CHOOSE i \in 1..Len(arg) :
                         arg[i] = ":" /\ \A j \in 1..(i - 1) : arg[j] # ":"
            head == SubSeq(arg, 1, colon - 1)
            at == CHOOSE i \in 0..Len(head) :
                      /\ i > 0 => head[i] = "@"
                      /\ \A j \in (i + 1)..Len(head) : head[j] # "@"
        IN /\ parsed[3] = SubSeq(arg, colon + 1, Len(arg))
           /\ at > 0 => /\ parsed[1] = SubSeq(head, 1, at - 1)
                        /\ parsed[2] = SubSeq(head, at + 1, Len(head))
           /\ at = 0 => parsed[1] = None /\ parsed[2] = head

(***************************************************************************)
(* C10.  As claimed: run through main(), the sync command holds one        *)
(* exclude instruction for each --exclude PATTERN of the command line.     *)
(***************************************************************************)
ExcludePositions(cmd) == {i \in 1..Len(cmd) : cmd[i] = "--exclude"}

C10_ExcludesReachSync ==
    (via = "main" /\ pc \notin {"idle", "usage"} /\ cli.exclude # None) =>
        /\ Cardinality(ExcludePositions(rsync_cmd)) = Len(cli.exclude)
        /\ \A k \in 1..Len(cli.exclude) :
               \E i \in ExcludePositions(rsync_cmd) :
                   i < Len(rsync_cmd)
                   /\ rsync_cmd[i + 1] = "'" \o cli.exclude[k] \o "'"

(***************************************************************************)
(* C11.  The source argument of the sync command ends with exactly one     *)
(* separator when the source given had none, and is the source given,      *)
(* unchanged, when it ended with one already; normalising it again         *)
(* changes nothing.                                                        *)
(***************************************************************************)
GivenSource == cli.positional[1]
\* the source operand of a sync command: the token before the target
SourceArgument(cmd) == cmd[Len(cmd) - 1]

C11_SourceEndsWithOneSeparator ==
    (pc \notin {"idle", "usage"}) =>
        /\ GivenSource[Len(GivenSource)] # sep =>
               /\ source = GivenSource \o <<sep>>
               /\ source[Len(source) - 1] # sep
        /\ GivenSource[Len(GivenSource)] = sep => source = GivenSource
        /\ NormalisedSource(source) = source
        /\ SourceArgument(rsync_cmd) = Str(source)

C11_Witness ==
    /\ pc = "rsync"
    /\ GivenSource = <<"/", "s">>
    /\ SourceArgument(rsync_cmd) = "/s/"

(***************************************************************************)
(* C12.  A command whose executable is not found raises                    *)
(* NoSuchCommandError and not CalledProcessError; a command that runs and  *)
(* exits non-zero raises CalledProcessError and not NoSuchCommandError.    *)
(* Either way the command was run once, and no command of the invocation   *)
(* runs after it.                                                          *)
(***************************************************************************)
NotFound(proc) == proc.kind = "oserror" /\ proc.errno = ENOENT

C12_NotFoundOrFailed ==
    (Len(Outcomes) >= 1 /\ ~Succeeded(LastOutcome)) =>
        /\ NotFound(LastOutcome) =>
               /\ raised.type = "NoSuchCommandError"
               /\ raised.command = Issued[Len(Issued)]
        /\ ExitedNonZero(LastOutcome) =>
               /\ raised.type = "CalledProcessError"
               /\ raised.command = Issued[Len(Issued)]
        /\ pc = "failed"
        /\ Len(Issued) = Len(Outcomes)
        /\ \A i \in 1..(Len(Issued) - 1) :
               Succeeded(Outcomes[i]) /\ Issued[i] # Issued[Len(Issued)]
        /\ log[Len(log)] = Ended(Issued[Len(Issued)], LastOutcome)

C12_Witness ==
    /\ pc = "failed"
    /\ Len(Issued) = 2
    /\ NotFound(LastOutcome)
    /\ raised.type = "NoSuchCommandError"

(***************************************************************************)
(* C13.  With a number of positional arguments other than two, main()      *)
(* fails while parsing the command line: CommandLineArgumentsError is      *)
(* raised, no external command is run in that invocation, and the process  *)
(* exits with a non-zero status.                                           *)
(***************************************************************************)
C13_UsageError ==
    /\ (via = "main" /\ Len(cli.positional) # 2) =>
           /\ pc = "usage"
           /\ raised.type = "CommandLineArgumentsError"
           /\ log = <<>>
           /\ exit_status > 0
           /\ fs = [m \in Machines |-> EmptyTree]
    /\ pc = "usage" => (via = "main" /\ Len(cli.positional) # 2)

C13_Witness ==
    /\ pc = "usage"
    /\ Len(cli.positional) = 3
    /\ exit_status = 1
    /\ log = <<>>

(***************************************************************************)
(* C14.  The target of the sync command is <root>/incomplete.snapshot,     *)
(* with "[user@]host:" before it when the destination is remote, for       *)
(* every destination and option set; and the sync step, failed or not,     *)
(* neither creates nor removes a <label>.snapshot directory: the one path  *)
(* it may add is incomplete.snapshot of the destination.                   *)
(***************************************************************************)
SyncTarget(cmd) == cmd[Len(cmd)]
IncompletePath == Root \o "/incomplete.snapshot"
\* the <label>.snapshot directories of machine m in trees f
Snapshots(f, m) == f[m].dirs \cap SnapshotPaths

SyncTargetIsIncomplete ==
    (pc \notin {"idle", "usage"}) =>
        SyncTarget(rsync_cmd) =
            (IF dest_spec[2] # None
             THEN UserHost(dest_spec[1], dest_spec[2]) \o ":" ELSE "")
            \o IncompletePath

SyncStepKeepsSnapshots ==
    (pc = "rsync" /\ pc' # "rsync") =>
        /\ \A m \in Machines :
               /\ Snapshots(fs', m) = Snapshots(fs, m)
               /\ fs'[m].links = fs[m].links
               /\ fs[m].dirs \subseteq fs'[m].dirs
        /\ fs'[DestMachine].dirs \subseteq
               fs[DestMachine].dirs \cup {IncompletePath}
        /\ \A m \in Machines \ {DestMachine} : fs'[m] = fs[m]

C14_SyncIntoIncomplete ==
    []SyncTargetIsIncomplete /\ [][SyncStepKeepsSnapshots]_vars

\* a failed sync that left a partial incomplete.snapshot next to an
\* earlier snapshot
C14_Witness ==
    /\ pc = "failed"
    /\ Len(Issued) = 1
    /\ IncompletePath \in fs[DestMachine].dirs
    /\ Snapshots(fs, DestMachine) # {}
    /\ dest_spec[1] # None

(***************************************************************************)
(* C15.  The sync command carries --dry-run exactly when trial mode was    *)
(* requested, through main() as through snapshot(); and no step of a       *)
(* trial-mode invocation changes the trees.                                *)
(***************************************************************************)
DryRunIffRequested ==
    (pc \notin {"idle", "usage"}) =>
        /\ IsDryRun(rsync_cmd) <=> cli.debug
        /\ debug <=> cli.debug

TrialLeavesTrees == (debug \/ debug') => fs' = fs

C15_TrialMode == []DryRunIffRequested /\ [][TrialLeavesTrees]_vars

C15_Witness ==
    /\ via = "main"
    /\ cli.debug
    /\ pc = "done"
    /\ IsDryRun(rsync_cmd)
    /\ Succeeded(LastOutcome)
    /\ fs = [m \in Machines |-> EmptyTree]

(***************************************************************************)
(* C16.  Every command run was echoed immediately before it was run, the   *)
(* echo of the next command comes only after the command before it has     *)
(* ended, and a command the invocation never reached is never echoed.      *)
(***************************************************************************)
IsEcho(e) == e[1] = "echo"
EchoedCommands == {log[i][2] : i \in {j \in 1..Len(log) : IsEcho(log[j])}}
IssuedCommands == {Issued[i] : i \in 1..Len(Issued)}

C16_EchoThenRun ==
    /\ \A i \in 1..Len(log) :
           /\ IsRun(log[i]) => (i > 1 /\ log[i - 1] = Echoed(log[i][2]))
           /\ IsEcho(log[i]) =>
                  /\ i < Len(log) /\ log[i + 1] = Ran(log[i][2])
                  /\ i > 1 => (IsEnd(log[i - 1]) /\ Succeeded(log[i - 1][3]))
    /\ EchoedCommands = IssuedCommands
    /\ \A k \in 1..Len(Plan) : Plan[k] \in EchoedCommands => k <= Len(Issued)

\* the rename failed: rm and ln were neither run nor echoed
C16_Witness ==
    /\ pc = "failed"
    /\ Len(Issued) = 2
    /\ EchoedCommands = {rsync_cmd, mv_cmd}
    /\ Len(log) = 6

(***************************************************************************)
(* C17.  The remove step does not fail for want of a latest.snapshot:      *)
(* where the link is absent when the step is reached, the step can exit 0  *)
(* and hand over to the link step; and a run that is not a trial run,      *)
(* began without the link and completed has run all four commands with     *)
(* success and left latest.snapshot pointing at its <label>.snapshot.      *)
(* The tree is that of the machine the remove and link commands run on.    *)
(***************************************************************************)
LinkMachine == Machine(rm_cmd)
LatestAbsent(links) == ~\E l \in links : l[1] = LatestPath

C17_RemoveWhenAbsent ==
    /\ (pc = "rm" /\ LatestAbsent(fs[LinkMachine].links)) =>
           ENABLED (RunRm /\ pc' = "ln" /\ raised' = NoError)
    /\ (pc = "done" /\ ~debug /\ LatestAbsent(links0[LinkMachine])) =>
           /\ Programs(Issued) = PlanPrograms
           /\ \A i \in 1..Len(Outcomes) : Succeeded(Outcomes[i])
           /\ LatestTargets(LinkMachine) = {date \o ".snapshot"}

\* the first run against an empty root, completed
C17_Witness ==
    /\ pc = "done"
    /\ ~debug
    /\ DestMachine = "local"
    /\ LatestAbsent(links0["local"])
    /\ Cardinality(Completed("local")) = 1
    /\ LatestTargets("local") = {date \o ".snapshot"}

(***************************************************************************)
(* LocalSpec: any number of calls of snapshot(), every one of them for a   *)
(* local destination.                                                      *)
(***************************************************************************)
LocalCall == CallSnapshot /\ dest_spec'[2] = None

LocalNext ==
    \/ LocalCall
    \/ RunRsync
    \/ RunMv
    \/ RunRm
    \/ RunLn

LocalSpec == Init /\ [][LocalNext]_vars

(***************************************************************************)
(* C18.  With local destinations, in every reachable state, whatever the   *)
(* invocations were and wherever they failed, latest.snapshot is absent    *)
(* or names a <label>.snapshot directory that exists in the root.          *)
(***************************************************************************)
\* the links of tree t whose target is no directory next to them
Dangling(t) ==
    {l \in t.links :
        ~\E r \in Roots : /\ l[1] = r \o "/latest.snapshot"
                          /\ r \o "/" \o l[2] \in t.dirs \cap SnapshotPaths}

C18_LatestNeverDangles ==
    /\ Dangling(fs["local"]) = {}
    /\ Cardinality(fs["local"].links) <= 1

\* the remove step failed after the rename: the link still names the
\* earlier snapshot
C18_Witness ==
    /\ pc = "failed"
    /\ Len(Issued) = 3
    /\ Cardinality(Completed("local")) = 2
    /\ fs["local"].links # {}
    /\ LatestTargets("local") # {date \o ".snapshot"}

(***************************************************************************)
(* C19.  With local destinations, whatever an earlier failed invocation    *)
(* left behind (a stale incomplete.snapshot, a renamed snapshot without    *)
(* its link, no link at all), an invocation that is not a trial run and    *)
(* completes has run all four commands and ends with no                    *)
(* incomplete.snapshot in the root and with latest.snapshot pointing at    *)
(* its own <label>.snapshot, which exists.                                 *)
(***************************************************************************)
C19_NextFullRunRepairs ==
    (pc = "done" /\ ~debug) =>
        /\ Programs(Issued) = PlanPrograms
        /\ IncompletePath \notin fs["local"].dirs
        /\ LatestTargets("local") = {date \o ".snapshot"}
        /\ Root \o "/" \o date \o ".snapshot" \in fs["local"].dirs
        /\ fs["local"].links = {<<LatestPath, date \o ".snapshot">>}

\* a completed run with a later label, after a run that had renamed its
\* snapshot and left no link
C19_Witness ==
    /\ pc = "done"
    /\ ~debug
    /\ date = _datetime(MaxClock)
    /\ links0["local"] = {}
    /\ Root \o "/" \o SnapshotName(1) \in fs["local"].dirs
    /\ MostRecent("local") = date \o ".snapshot"
    /\ LatestTargets("local") = {date \o ".snapshot"}

====
